---- MODULE Spec2Model ----
(***************************************************************************)
(* Tile source selection of large_image (large_image/tilesource):          *)
(* the AvailableTileSources registry and its lazy population by            *)
(* loadTileSources, the ranking of getSortedSourceList, the probing of     *)
(* getSourceNameFromDict / canRead / canReadList and the construction and  *)
(* error mapping of getTileSourceFromDict.                                 *)
(*                                                                         *)
(* Python strings are sequences of one-character strings, so that split,   *)
(* startswith, basename, lower and the lexicographic comparison of names   *)
(* are computed rather than assumed.                                       *)
(***************************************************************************)
EXTENDS Integers, Sequences, FiniteSets, TLC

VARIABLES
    epoints,     \* the entry points entry_points() enumerates (the installation)
    oracle,      \* what each installed class's canRead does
    registry,    \* AvailableTileSources, in dict (insertion) order
    pc,          \* each caller's position
    frame,       \* each caller's locals
    result,      \* what the finished call returned or raised
    discovered,  \* a loadTileSources invocation has returned
    opDone       \* a public operation has finished

vars == <<epoints, oracle, registry, pc, frame, result, discovered, opDone>>

(***************************************************************************)
(* Bounds                                                                  *)
(***************************************************************************)
NumCallers == 2

Callers == 1..NumCallers

(***************************************************************************)
(* SourcePriority (large_image/constants.py): NAMED is below and MANUAL    *)
(* above every real priority.                                              *)
(***************************************************************************)
NAMED == 0

MANUAL == 12

(***************************************************************************)
(* Strings                                                                 *)
(***************************************************************************)
\* The characters in use, in code point order.
Chars ==
    << ".", "/", ":", "F", "I", "T", "_", "a", "b", "c", "d", "e", "f", "g",
       "h", "i", "l", "m", "n", "o", "p", "r", "s", "t", "u", "v", "w", "x", "z" >>

Ord(ch) == CHOOSE i \in 1..Len(Chars) : Chars[i] = ch

\* str.lower() of one character
LowerChar(ch) ==
    CASE ch = "F" -> "f"
      [] ch = "I" -> "i"
      [] ch = "T" -> "t"
      [] OTHER -> ch

Lower(s) == [i \in 1..Len(s) |-> LowerChar(s[i])]

\* str < str of Python: lexicographic on code points, a proper prefix is less
RECURSIVE StrLess(_, _)
StrLess(s, t) ==
    IF t = <<>> THEN FALSE
    ELSE IF s = <<>> THEN TRUE
    ELSE IF Head(s) = Head(t) THEN StrLess(Tail(s), Tail(t))
    ELSE Ord(Head(s)) < Ord(Head(t))

StartsWith(s, p) == Len(s) >= Len(p) /\ SubSeq(s, 1, Len(p)) = p

\* the index of the first occurrence of p in s, 0 when there is none
Find(s, p) ==
    LET hits == {i \in 1..(Len(s) - Len(p) + 1) : SubSeq(s, i, i + Len(p) - 1) = p}
    IN  IF hits = {} THEN 0 ELSE CHOOSE i \in hits : \A j \in hits : i <= j

Contains(s, p) == Find(s, p) # 0

\* the index of the last occurrence of character ch in s, 0 when there is none
RFind(s, ch) ==
    LET hits == {i \in 1..Len(s) : s[i] = ch}
    IN  IF hits = {} THEN 0 ELSE CHOOSE i \in hits : \A j \in hits : i >= j

\* s.split(sep), sep one character
RECURSIVE Split(_, _)
Split(s, sep) ==
    LET i == Find(s, <<sep>>)
    IN  IF i = 0 THEN <<s>>
        ELSE <<SubSeq(s, 1, i - 1)>> \o Split(SubSeq(s, i + 1, Len(s)), sep)

SchemeSep == <<":", "/", "/">>

LargeImageScheme ==
    <<"l", "a", "r", "g", "e", "_", "i", "m", "a", "g", "e">> \o SchemeSep

\* str(pathOrUri).split('://', 1)[-1]
UriWithoutProtocol(path) ==
    LET i == Find(path, SchemeSep)
    IN  IF i = 0 THEN path ELSE SubSeq(path, i + Len(SchemeSep), Len(path))

IsLargeImageUri(path) == StartsWith(path, LargeImageScheme)

\* os.path.basename
BaseName(s) == SubSeq(s, RFind(s, "/") + 1, Len(s))

\* the extensions with their case kept
ExtensionsCaseKept(path) == Tail(Split(BaseName(UriWithoutProtocol(path)), "."))

\* [ext.lower() for ext in baseName.split('.')[1:]]
Extensions(path) ==
    LET parts == Tail(Split(BaseName(UriWithoutProtocol(path)), "."))
    IN  [i \in 1..Len(parts) |-> Lower(parts[i])]

\* re.match(regex, baseName) for a regex that is a literal: a match at the start
ReMatch(regex, baseName) == StartsWith(baseName, regex)

SeqToSet(s) == {s[i] : i \in 1..Len(s)}

MinOf(S) == CHOOSE m \in S : \A n \in S : m <= n

(***************************************************************************)
(* The installation: tile source classes and the entry points of group     *)
(* 'large_image.source' that load them.  A class has                       *)
(*   name         its `name` attribute (<<>> is the empty string)          *)
(*   hasWild/wild whether None is a key of `extensions`, and its value     *)
(*   exts         the other items of `extensions`                          *)
(*   mimeTypes    the items of `mimeTypes`                                 *)
(*   nameMatches  the items of `nameMatches`                               *)
(*   geoProp      the `_geospatial_source` attribute (False when unset)    *)
(*   detector     what the `isGeospatial` attribute does: "none" (no such  *)
(*                attribute), "path" (True for the geospatial files),      *)
(*                "unsure" (returns None), "raise"                         *)
(***************************************************************************)
S_tif == <<"t", "i", "f">>

S_png == <<"p", "n", "g">>

S_geo == <<"g", "e", "o">>

S_dum == <<"d", "u", "m">>

NoMime == "None"

TiffClass ==
    [id |-> "tiff", name |-> S_tif, hasWild |-> TRUE, wild |-> MANUAL,
     exts |-> {<<S_tif, 1>>}, mimeTypes |-> {<<"image/tiff", 1>>},
     nameMatches |-> {}, geoProp |-> FALSE, detector |-> "none"]

PngClass ==
    [id |-> "png", name |-> S_png, hasWild |-> TRUE, wild |-> MANUAL,
     exts |-> {<<S_png, 1>>}, mimeTypes |-> {},
     nameMatches |-> {}, geoProp |-> FALSE, detector |-> "none"]

\* a second distribution that advertises the entry point name png as well
Png2Class ==
    [id |-> "png2", name |-> S_png, hasWild |-> TRUE, wild |-> 10,
     exts |-> {<<S_png, 3>>}, mimeTypes |-> {},
     nameMatches |-> {<<(<<"_", "n">>), 2>>}, geoProp |-> FALSE,
     detector |-> "unsure"]

GdalClass ==
    [id |-> "gdal", name |-> <<"g", "d", "a", "l">>, hasWild |-> TRUE, wild |-> 5,
     exts |-> {<<S_tif, 2>>}, mimeTypes |-> {<<"image/tiff", 3>>},
     nameMatches |-> {}, geoProp |-> TRUE, detector |-> "path"]

DummyClass ==
    [id |-> "dummy", name |-> S_dum, hasWild |-> TRUE, wild |-> MANUAL,
     exts |-> {}, mimeTypes |-> {<<"image/tiff", MANUAL>>},
     nameMatches |-> {}, geoProp |-> FALSE, detector |-> "raise"]

\* a class whose name is empty
UnnamedClass ==
    [id |-> "unnamed", name |-> <<>>, hasWild |-> TRUE, wild |-> 4,
     exts |-> {}, mimeTypes |-> {},
     nameMatches |-> {}, geoProp |-> FALSE, detector |-> "none"]

\* a class whose extensions have no None key
NoWildClass ==
    [id |-> "nowild", name |-> <<"r", "a", "w">>, hasWild |-> FALSE, wild |-> MANUAL,
     exts |-> {<<S_tif, 1>>}, mimeTypes |-> {},
     nameMatches |-> {}, geoProp |-> FALSE, detector |-> "none"]

\* an entry point: its name, whether entryPoint.load() returns, and the class
EP(name, loads, cls) == [name |-> name, loads |-> loads, cls |-> cls]

FullInstall ==
    << EP(S_tif, TRUE, TiffClass),
       EP(<<"b", "a", "d">>, FALSE, UnnamedClass),
       EP(S_png, TRUE, PngClass),
       EP(S_geo, TRUE, GdalClass),
       EP(<<"n", "u", "l">>, TRUE, UnnamedClass),
       EP(S_dum, TRUE, DummyClass),
       EP(<<"r", "a", "w">>, TRUE, NoWildClass),
       EP(S_png, TRUE, Png2Class) >>

BasicInstall == << EP(S_tif, TRUE, TiffClass), EP(S_png, TRUE, PngClass) >>

BrokenInstall ==
    << EP(<<"b", "a", "d">>, FALSE, UnnamedClass),
       EP(<<"n", "u", "l">>, TRUE, UnnamedClass),
       EP(<<"r", "a", "w">>, TRUE, NoWildClass) >>

Installations == {FullInstall, BasicInstall, BrokenInstall}

\* line 59: sourceClass.name and None in sourceClass.extensions
ValidSource(cls) == cls.name # <<>> /\ cls.hasWild

\* the classes an installation can register
InstalledIds(eps) ==
    {eps[i].cls.id : i \in {j \in 1..Len(eps) : eps[j].loads /\ ValidSource(eps[j].cls)}}

ClassIds == {"tiff", "png", "png2", "gdal", "dummy", "unnamed", "nowild"}

ProbeOutcomes == {"True", "False", "raise"}

(***************************************************************************)
(* Inputs                                                                  *)
(***************************************************************************)
P_a_tif == <<"a", ".", "t", "i", "f">>

P_d_b_c_TIF == <<"d", "/", "b", ".", "c", ".", "T", "I", "F">>

P_no_png == <<"n", "o", ".", "p", "n", "g">>

P_d_bin == <<"d", ".", "b", "i", "n">>

P_s_a_tif == <<"s">> \o SchemeSep \o P_a_tif

P_li_png == LargeImageScheme \o S_png

P_li_dum == LargeImageScheme \o S_dum

P_li_zz == LargeImageScheme \o <<"z", "z">>

Paths ==
    {P_a_tif, P_d_b_c_TIF, P_no_png, P_d_bin, P_s_a_tif, P_li_png, P_li_dum, P_li_zz}

MimeHints == {NoMime, "image/tiff"}

\* the files os.path.exists finds
FileSystem == {P_a_tif, P_d_b_c_TIF, P_d_bin}

PathExists(path) == path \in FileSystem

\* the files the installed detectors take for geospatial
GeoPaths == {P_a_tif, P_s_a_tif}

\* NEW_IMAGE_PATH_FLAG and the tokens uuid.uuid4() may give
NewImagePathFlag == <<"_", "n">>

NewTokens == {<<"u">>, <<"v">>}

(***************************************************************************)
(* The registry as a dict: a sequence of items in insertion order          *)
(***************************************************************************)
Keys(reg) == [i \in 1..Len(reg) |-> reg[i].key]

HasKey(reg, key) == \E i \in 1..Len(reg) : reg[i].key = key

\* reg[key]
Lookup(reg, key) == reg[CHOOSE i \in 1..Len(reg) : reg[i].key = key].cls

\* a list in place of a dict: every registration appends
DictSetAppends(reg, key, cls) == Append(reg, [key |-> key, cls |-> cls])

\* reg[key] = cls: an existing key keeps its place and takes the new value
DictSet(reg, key, cls) ==
    IF HasKey(reg, key)
    THEN [i \in 1..Len(reg) |-> IF reg[i].key = key THEN [key |-> key, cls |-> cls] ELSE reg[i]]
    ELSE Append(reg, [key |-> key, cls |-> cls])

\* lines 57-64: one iteration of the loop of loadTileSources
\* the test of line 59 left out
LoadEntryPointUnchecked(reg, ep) ==
    IF ep.loads THEN DictSet(reg, ep.name, ep.cls) ELSE reg

LoadEntryPoint(reg, ep) ==
    IF ep.loads /\ ValidSource(ep.cls) THEN DictSet(reg, ep.name, ep.cls) ELSE reg

\* lines 56-64: the whole loop, from entry point i on
RECURSIVE LoadFrom(_, _, _)
LoadFrom(reg, eps, i) ==
    IF i > Len(eps) THEN reg ELSE LoadFrom(LoadEntryPoint(reg, eps[i]), eps, i + 1)
(***************************************************************************)
(* isGeospatial (lines 21-40)                                              *)
(***************************************************************************)
\* sorted() of a list of strings: insertion in input order
RECURSIVE InsertName(_, _)
InsertName(x, s) ==
    IF s = <<>> THEN <<x>>
    ELSE IF StrLess(x, Head(s)) THEN <<x>> \o s
    ELSE <<Head(s)>> \o InsertName(x, Tail(s))

\* the names in dict order, sorted() forgotten
SortedNamesForgotten(s) == s

RECURSIVE SortedNames(_)
SortedNames(s) ==
    IF s = <<>> THEN <<>>
    ELSE InsertName(s[Len(s)], SortedNames(SubSeq(s, 1, Len(s) - 1)))

\* lines 33-37: the result of source.isGeospatial(path), None when it raised
Detect(cls, path) ==
    CASE cls.detector = "path" -> IF path \in GeoPaths THEN "True" ELSE "False"
      [] cls.detector = "unsure" -> "None"
      [] cls.detector = "raise" -> "None"

\* lines 30-40: the loop from the i-th name on; queried lists the sources
\* whose isGeospatial was called
RECURSIVE GeoScan(_, _, _, _, _)
GeoScan(reg, path, names, i, queried) ==
    IF i > Len(names) THEN [result |-> FALSE, definite |-> FALSE, queried |-> queried]
    ELSE LET cls == Lookup(reg, names[i])
         IN  IF cls.detector = "none" THEN GeoScan(reg, path, names, i + 1, queried)
             ELSE IF Detect(cls, path) \in {"True", "False"}
             THEN [result |-> (Detect(cls, path) = "True"), definite |-> TRUE,
                   queried |-> Append(queried, names[i])]
             ELSE GeoScan(reg, path, names, i + 1, Append(queried, names[i]))

IsGeospatialScan(reg, path) == GeoScan(reg, path, SortedNames(Keys(reg)), 1, <<>>)

IsGeospatial(reg, path) == IsGeospatialScan(reg, path).result

(***************************************************************************)
(* getSortedSourceList (lines 82-114), one source                          *)
(***************************************************************************)
\* line 92
WildcardPriority(cls) == IF cls.hasWild THEN cls.wild ELSE MANUAL

\* lines 94-95, 98-99, 102-103: the priorities of the entries that match
MimeMatches(cls, mime) ==
    {m[2] : m \in {e \in cls.mimeTypes : mime # NoMime /\ e[1] = mime}}

NameMatches(cls, path) ==
    {m[2] : m \in {e \in cls.nameMatches :
                       ReMatch(e[1], BaseName(UriWithoutProtocol(path)))}}

ExtMatches(cls, path) ==
    {m[2] : m \in {e \in cls.exts : e[1] \in SeqToSet(Extensions(path))}}

\* lines 93, 96, 100, 104
Fallback(cls, path, mime) ==
    MimeMatches(cls, mime) = {} /\ NameMatches(cls, path) = {} /\ ExtMatches(cls, path) = {}

\* lines 92-105
MatchedPriority(cls, path, mime) ==
    MinOf({WildcardPriority(cls)} \cup MimeMatches(cls, mime)
              \cup NameMatches(cls, path) \cup ExtMatches(cls, path))

\* lines 106-107
IsNamed(key, path) == IsLargeImageUri(path) /\ key = UriWithoutProtocol(path)

Priority(key, cls, path, mime) ==
    IF IsNamed(key, path) THEN NAMED ELSE MatchedPriority(cls, path, mime)

\* lines 110-112
PropertiesClash(cls, geo) == cls.geoProp # geo

\* line 108 with > in place of >=
RankOneKeepsManual(key, cls, path, mime, geo) ==
    IF Priority(key, cls, path, mime) > MANUAL THEN <<>>
    ELSE << <<PropertiesClash(cls, geo), Fallback(cls, path, mime),
              Priority(key, cls, path, mime), key>> >>

\* lines 91-113: what one iteration appends to sourceList
RankOne(key, cls, path, mime, geo) ==
    IF Priority(key, cls, path, mime) >= MANUAL THEN <<>>
    ELSE << <<PropertiesClash(cls, geo), Fallback(cls, path, mime),
              Priority(key, cls, path, mime), key>> >>

\* the comparison without the clash flag
TupleLessNoClash(a, b) ==
    IF a[2] # b[2] THEN b[2]
    ELSE IF a[3] # b[3] THEN a[3] < b[3]
    ELSE StrLess(a[4], b[4])

\* tuple < tuple of Python on (clash, fallback, priority, sourceName)
TupleLess(a, b) ==
    IF a[1] # b[1] THEN b[1]
    ELSE IF a[2] # b[2] THEN b[2]
    ELSE IF a[3] # b[3] THEN a[3] < b[3]
    ELSE StrLess(a[4], b[4])

\* sorted(sourceList) (lines 133, 220): insertion in input order
RECURSIVE InsertTuple(_, _)
InsertTuple(x, s) ==
    IF s = <<>> THEN <<x>>
    ELSE IF TupleLess(x, Head(s)) THEN <<x>> \o s
    ELSE <<Head(s)>> \o InsertTuple(x, Tail(s))

\* the list as getSortedSourceList returns it, sorted() forgotten
SortedForgotten(s) == s

RECURSIVE Sorted(_)
Sorted(s) ==
    IF s = <<>> THEN <<>>
    ELSE InsertTuple(s[Len(s)], Sorted(SubSeq(s, 1, Len(s) - 1)))
(***************************************************************************)
(* State                                                                   *)
(***************************************************************************)
Ops == {"canRead", "canReadList", "open", "new", "isGeospatial", "loadTileSources"}

EmptyFrame ==
    [op |-> "none", path |-> <<>>, mime |-> NoMime, ret |-> "none", epIdx |-> 0,
     geo |-> FALSE, queried |-> <<>>, rankIdx |-> 0, rankSize |-> 0,
     sourceList |-> <<>>, sorted |-> <<>>, probeIdx |-> 0, probed |-> <<>>,
     sourceName |-> <<>>]

\* kind: "none", "return" or "raise"; flag: the bool canRead or isGeospatial
\* returns; list: what canReadList returns; source: the class open
\* instantiated (or whose constructor raised); err: the exception
NoResult == [kind |-> "none", flag |-> FALSE, list |-> <<>>, source |-> "", err |-> ""]

Returned(c) == pc[c] = "done" /\ result[c].kind = "return"

Raised(c) == pc[c] = "done" /\ result[c].kind = "raise"

Opens(c) == frame[c].op \in {"open", "new"}

InitWith(installs, oracles) ==
    /\ epoints \in installs
    /\ oracle \in oracles
    /\ \A id \in ClassIds \ InstalledIds(epoints) : oracle[id] = "False"
    /\ registry = <<>>
    /\ pc = [c \in Callers |-> "idle"]
    /\ frame = [c \in Callers |-> EmptyFrame]
    /\ result = [c \in Callers |-> NoResult]
    /\ discovered = FALSE
    /\ opDone = FALSE

Init == InitWith(Installations, [ClassIds -> ProbeOutcomes])

(***************************************************************************)
(* Calls of the public functions                                           *)
(***************************************************************************)
Call(c, op, path, mime) ==
    /\ pc[c] = "idle"
    /\ pc' = [pc EXCEPT ![c] = "ensure"]
    /\ frame' = [frame EXCEPT ![c] = [EmptyFrame EXCEPT !.op = op, !.path = path, !.mime = mime]]
    /\ UNCHANGED <<epoints, oracle, registry, result, discovered, opDone>>

\* canRead (line 184)
CallCanRead(c, paths, mimes) ==
    \E path \in paths, mime \in mimes : Call(c, "canRead", path, mime)

\* canReadList (line 201)
CallCanReadList(c, paths, mimes) ==
    \E path \in paths, mime \in mimes : Call(c, "canReadList", path, mime)

\* open / getTileSource (lines 160, 172)
CallOpen(c, paths, mimes) ==
    \E path \in paths, mime \in mimes : Call(c, "open", path, mime)

\* new (line 232): NEW_IMAGE_PATH_FLAG + str(uuid.uuid4())
CallNew(c) ==
    \E token \in NewTokens : Call(c, "new", NewImagePathFlag \o token, NoMime)

\* isGeospatial (line 21)
CallIsGeospatial(c, paths) ==
    \E path \in paths : Call(c, "isGeospatial", path, NoMime)

\* loadTileSources (line 43) called by the application itself
CallLoad(c) ==
    /\ pc[c] = "idle"
    /\ pc' = [pc EXCEPT ![c] = "load"]
    /\ frame' = [frame EXCEPT ![c] =
           [EmptyFrame EXCEPT !.op = "loadTileSources", !.epIdx = 1, !.ret = "done"]]
    /\ UNCHANGED <<epoints, oracle, registry, result, discovered, opDone>>

(***************************************************************************)
(* if not len(AvailableTileSources): loadTileSources()                     *)
(* (lines 28-29, 167-168, 194-195, 215-216).  pc "ensure" is the test of   *)
(* the public function, "geo_ensure" the one of isGeospatial when          *)
(* getSortedSourceList calls it (line 87).                                 *)
(***************************************************************************)
AfterEnsure(c) ==
    IF pc[c] = "ensure" /\ frame[c].op # "isGeospatial" THEN "geo_ensure" ELSE "classify"

EnsureLoads(c) ==
    /\ pc[c] \in {"ensure", "geo_ensure"}
    /\ Len(registry) = 0
    /\ pc' = [pc EXCEPT ![c] = "load"]
    /\ frame' = [frame EXCEPT ![c].epIdx = 1, ![c].ret = AfterEnsure(c)]
    /\ UNCHANGED <<epoints, oracle, registry, result, discovered, opDone>>

EnsureSkips(c) ==
    /\ pc[c] \in {"ensure", "geo_ensure"}
    /\ Len(registry) # 0
    /\ pc' = [pc EXCEPT ![c] = AfterEnsure(c)]
    /\ UNCHANGED <<epoints, oracle, registry, frame, result, discovered, opDone>>

\* lines 56-64: one entry point
LoadEntry(c) ==
    /\ pc[c] = "load"
    /\ frame[c].epIdx <= Len(epoints)
    /\ registry' = LoadEntryPoint(registry, epoints[frame[c].epIdx])
    /\ frame' = [frame EXCEPT ![c].epIdx = @ + 1]
    /\ UNCHANGED <<epoints, oracle, pc, result, discovered, opDone>>

\* loadTileSources returns
LoadReturn(c) ==
    /\ pc[c] = "load"
    /\ frame[c].epIdx > Len(epoints)
    /\ pc' = [pc EXCEPT ![c] = frame[c].ret]
    /\ discovered' = TRUE
    /\ UNCHANGED <<epoints, oracle, registry, frame, result, opDone>>

(***************************************************************************)
(* isGeospatial, lines 30-40                                               *)
(***************************************************************************)
\* called as a public function: the result is returned
ClassifyReturn(c) ==
    /\ pc[c] = "classify"
    /\ frame[c].op = "isGeospatial"
    /\ LET scan == IsGeospatialScan(registry, frame[c].path)
       IN  /\ frame' = [frame EXCEPT ![c].geo = scan.result, ![c].queried = scan.queried]
           /\ result' = [result EXCEPT ![c] = [NoResult EXCEPT !.kind = "return", !.flag = scan.result]]
    /\ pc' = [pc EXCEPT ![c] = "done"]
    /\ opDone' = TRUE
    /\ UNCHANGED <<epoints, oracle, registry, discovered>>

\* called by getSortedSourceList (line 87)
ClassifyForRank(c) ==
    /\ pc[c] = "classify"
    /\ frame[c].op # "isGeospatial"
    /\ LET scan == IsGeospatialScan(registry, frame[c].path)
       IN  frame' = [frame EXCEPT ![c].geo = scan.result, ![c].queried = scan.queried]
    /\ pc' = [pc EXCEPT ![c] = "rank"]
    /\ UNCHANGED <<epoints, oracle, registry, result, discovered, opDone>>

(***************************************************************************)
(* getSortedSourceList, lines 89-114                                       *)
(***************************************************************************)
\* line 90: iter(availableSources)
RankStart(c) ==
    /\ pc[c] = "rank"
    /\ frame[c].rankIdx = 0
    /\ frame' = [frame EXCEPT ![c].rankIdx = 1, ![c].rankSize = Len(registry)]
    /\ UNCHANGED <<epoints, oracle, registry, pc, result, discovered, opDone>>

\* lines 91-113: one source
RankEntry(c) ==
    /\ pc[c] = "rank"
    /\ frame[c].rankIdx >= 1
    /\ Len(registry) = frame[c].rankSize
    /\ frame[c].rankIdx <= Len(registry)
    /\ LET item == registry[frame[c].rankIdx]
       IN  frame' = [frame EXCEPT
                ![c].sourceList = @ \o RankOne(item.key, item.cls, frame[c].path,
                                               frame[c].mime, frame[c].geo),
                ![c].rankIdx = @ + 1]
    /\ UNCHANGED <<epoints, oracle, registry, pc, result, discovered, opDone>>

\* line 114, then sorted(sourceList) of line 133 or 220
RankReturn(c) ==
    /\ pc[c] = "rank"
    /\ frame[c].rankIdx >= 1
    /\ Len(registry) = frame[c].rankSize
    /\ frame[c].rankIdx > Len(registry)
    /\ frame' = [frame EXCEPT ![c].sorted = Sorted(frame[c].sourceList), ![c].probeIdx = 1]
    /\ pc' = [pc EXCEPT ![c] = "probe"]
    /\ UNCHANGED <<epoints, oracle, registry, result, discovered, opDone>>

\* line 90: the dict grew under the iteration (another caller is loading):
\* RuntimeError: dictionary changed size during iteration
RankRaise(c) ==
    /\ pc[c] = "rank"
    /\ frame[c].rankIdx >= 1
    /\ Len(registry) # frame[c].rankSize
    /\ pc' = [pc EXCEPT ![c] = "done"]
    /\ result' = [result EXCEPT ![c] = [NoResult EXCEPT !.kind = "raise", !.err = "RuntimeError"]]
    /\ opDone' = TRUE
    /\ UNCHANGED <<epoints, oracle, registry, frame, discovered>>

(***************************************************************************)
(* The probing loops: lines 133-136 (getSourceNameFromDict) and 220-223    *)
(* (canReadList); then lines 153-157 and 196-198                           *)
(***************************************************************************)
Probing(c) == pc[c] = "probe" /\ frame[c].probeIdx <= Len(frame[c].sorted)

\* the candidates taken from the end of the sorted list
CandidateReversed(c) ==
    frame[c].sorted[Len(frame[c].sorted) - frame[c].probeIdx + 1][4]

\* the loop of line 133 never moves on from the first entry
CandidateStuck(c) == frame[c].sorted[1][4]

\* the sourceName of the iteration of line 133 or 220
Candidate(c) == frame[c].sorted[frame[c].probeIdx][4]

\* availableSources[sourceName].canRead(pathOrUri, ...)
CanRead(cls) == oracle[cls.id]

\* canRead raises: nothing catches it
ProbeRaises(c) ==
    /\ Probing(c)
    /\ CanRead(Lookup(registry, Candidate(c))) = "raise"
    /\ frame' = [frame EXCEPT ![c].probed = Append(@, <<Candidate(c), "raise">>)]
    /\ pc' = [pc EXCEPT ![c] = "done"]
    /\ result' = [result EXCEPT ![c] = [NoResult EXCEPT !.kind = "raise", !.err = "ProbeError"]]
    /\ opDone' = TRUE
    /\ UNCHANGED <<epoints, oracle, registry, discovered>>

ProbeFalse(c) ==
    /\ Probing(c)
    /\ CanRead(Lookup(registry, Candidate(c))) = "False"
    /\ frame' = [frame EXCEPT ![c].probed = Append(@, <<Candidate(c), "False">>),
                              ![c].probeIdx = @ + 1]
    /\ UNCHANGED <<epoints, oracle, registry, pc, result, discovered, opDone>>

\* the return of line 135 left out: the loop goes on and line 136 returns None
ProbeTrueGoesOn(c) ==
    /\ Probing(c)
    /\ CanRead(Lookup(registry, Candidate(c))) = "True"
    /\ frame' = [frame EXCEPT ![c].probed = Append(@, <<Candidate(c), "True">>),
                              ![c].probeIdx = @ + 1]
    /\ UNCHANGED <<epoints, oracle, registry, pc, result, discovered, opDone>>

\* canReadList goes on (line 221); getSourceNameFromDict returns the name (line 135)
ProbeTrue(c) ==
    /\ Probing(c)
    /\ CanRead(Lookup(registry, Candidate(c))) = "True"
    /\ IF frame[c].op = "canReadList"
       THEN /\ frame' = [frame EXCEPT ![c].probed = Append(@, <<Candidate(c), "True">>),
                                      ![c].probeIdx = @ + 1]
            /\ UNCHANGED <<pc, result, opDone>>
       ELSE /\ frame' = [frame EXCEPT ![c].probed = Append(@, <<Candidate(c), "True">>),
                                      ![c].sourceName = Candidate(c)]
            /\ IF Opens(c)
               THEN /\ pc' = [pc EXCEPT ![c] = "construct"]
                    /\ UNCHANGED <<result, opDone>>
               ELSE /\ pc' = [pc EXCEPT ![c] = "done"]
                    /\ result' = [result EXCEPT ![c] = [NoResult EXCEPT !.kind = "return", !.flag = TRUE]]
                    /\ opDone' = TRUE
    /\ UNCHANGED <<epoints, oracle, registry, discovered>>

\* line 155 without the test for ://
OpenErrorNoSchemeTest(path) ==
    IF ~PathExists(path) THEN "TileSourceFileNotFoundError" ELSE "TileSourceError"

\* lines 155-157
OpenError(path) ==
    IF ~PathExists(path) /\ ~Contains(path, SchemeSep)
    THEN "TileSourceFileNotFoundError"
    ELSE "TileSourceError"

\* the loop ends: line 136 (None), line 223 (the list)
Exhausted(c) ==
    /\ pc[c] = "probe"
    /\ frame[c].probeIdx > Len(frame[c].sorted)
    /\ result' = [result EXCEPT ![c] =
           IF frame[c].op = "canReadList"
           THEN [NoResult EXCEPT !.kind = "return", !.list = frame[c].probed]
           ELSE IF frame[c].op = "canRead"
           THEN [NoResult EXCEPT !.kind = "return", !.flag = FALSE]
           ELSE [NoResult EXCEPT !.kind = "raise", !.err = OpenError(frame[c].path)]]
    /\ pc' = [pc EXCEPT ![c] = "done"]
    /\ opDone' = TRUE
    /\ UNCHANGED <<epoints, oracle, registry, frame, discovered>>

\* the constructor's exception replaced by the error of line 157
ConstructResultWrapped(cls, ok) ==
    IF ok THEN [NoResult EXCEPT !.kind = "return", !.source = cls.id]
    ELSE [NoResult EXCEPT !.kind = "raise", !.err = "TileSourceError", !.source = cls.id]

\* line 154: the constructor returns an instance or raises
ConstructResult(cls, ok) ==
    IF ok THEN [NoResult EXCEPT !.kind = "return", !.source = cls.id]
    ELSE [NoResult EXCEPT !.kind = "raise", !.err = "ConstructionError", !.source = cls.id]

Construct(c) ==
    /\ pc[c] = "construct"
    /\ \E ok \in BOOLEAN :
           result' = [result EXCEPT ![c] =
               ConstructResult(Lookup(registry, frame[c].sourceName), ok)]
    /\ pc' = [pc EXCEPT ![c] = "done"]
    /\ opDone' = TRUE
    /\ UNCHANGED <<epoints, oracle, registry, frame, discovered>>

\* the caller takes the result
Return(c) ==
    /\ pc[c] = "done"
    /\ pc' = [pc EXCEPT ![c] = "idle"]
    /\ frame' = [frame EXCEPT ![c] = EmptyFrame]
    /\ result' = [result EXCEPT ![c] = NoResult]
    /\ UNCHANGED <<epoints, oracle, registry, discovered, opDone>>

(***************************************************************************)
(* One caller                                                              *)
(***************************************************************************)
Main == CHOOSE c \in Callers : \A d \in Callers : c <= d

Next ==
    \/ CallCanRead(Main, Paths, MimeHints)
    \/ CallCanReadList(Main, Paths, MimeHints)
    \/ CallOpen(Main, Paths, MimeHints)
    \/ CallNew(Main)
    \/ CallIsGeospatial(Main, Paths)
    \/ CallLoad(Main)
    \/ EnsureLoads(Main)
    \/ EnsureSkips(Main)
    \/ LoadEntry(Main)
    \/ LoadReturn(Main)
    \/ ClassifyReturn(Main)
    \/ ClassifyForRank(Main)
    \/ RankStart(Main)
    \/ RankEntry(Main)
    \/ RankReturn(Main)
    \/ ProbeRaises(Main)
    \/ ProbeFalse(Main)
    \/ ProbeTrue(Main)
    \/ Exhausted(Main)
    \/ Construct(Main)
    \/ Return(Main)

Spec == Init /\ [][Next]_vars
(***************************************************************************)
(* Properties                                                              *)
(***************************************************************************)
\* getSortedSourceList has returned and its list is sorted
Ranked(c) == pc[c] \in {"probe", "construct"} \/ (pc[c] = "done" /\ frame[c].probeIdx >= 1)

\* getSourceNameFromDict returned None: the loop of line 133 ran to its end
ResolvedNone(c) ==
    /\ pc[c] = "done"
    /\ frame[c].op \in {"canRead", "open", "new"}
    /\ frame[c].probeIdx > Len(frame[c].sorted)

\* getSourceNameFromDict returned a name
ResolvedName(c) ==
    /\ pc[c] \in {"construct", "done"}
    /\ frame[c].op \in {"canRead", "open", "new"}
    /\ frame[c].sourceName # <<>>

\* the order of the ranking tuples: non-clashing first, then non-fallback,
\* then the lower priority, then the lesser name
TupleBefore(a, b) ==
    \/ ~a[1] /\ b[1]
    \/ a[1] = b[1] /\ ~a[2] /\ b[2]
    \/ a[1] = b[1] /\ a[2] = b[2] /\ a[3] < b[3]
    \/ a[1] = b[1] /\ a[2] = b[2] /\ a[3] = b[3] /\ StrLess(a[4], b[4])

\* the keys of the registry that are eligible for the input
EligibleKeys(reg, path, mime) ==
    {reg[i].key : i \in {j \in 1..Len(reg) :
         Priority(reg[j].key, reg[j].cls, path, mime) < MANUAL}}

\* the ranking tuple of the source registered as key
TupleOf(reg, key, path, mime) ==
    <<Lookup(reg, key).geoProp # IsGeospatial(reg, path),
      Fallback(Lookup(reg, key), path, mime),
      Priority(key, Lookup(reg, key), path, mime),
      key>>

Names(list) == [i \in 1..Len(list) |-> list[i][1]]

Declared == {"TileSourceFileNotFoundError", "TileSourceError", "ConstructionError"}

\* C1: an exception of a candidate's canRead is absorbed as a failed probe:
\* no call ends with it, only NotFound (TileSourceFileNotFoundError),
\* NoAvailableSource (TileSourceError) and ConstructionError reach the caller.
C1_OnlyDeclaredErrorsReachCaller ==
    \A c \in Callers : Raised(c) => result[c].err \in Declared

\* C2: for large_image://X with X registered, X has priority NAMED and is the
\* first of the sorted candidates, whatever the other sources match; so open
\* constructs X (and nothing else) whenever X's canRead succeeds.
C2_NamedSourceFirst ==
    \A c \in Callers :
        (Ranked(c) /\ IsLargeImageUri(frame[c].path)
            /\ HasKey(registry, UriWithoutProtocol(frame[c].path)))
        => LET X == UriWithoutProtocol(frame[c].path)
           IN  /\ frame[c].sorted # <<>>
               /\ frame[c].sorted[1][4] = X
               /\ frame[c].sorted[1][3] = NAMED
               /\ (Opens(c) /\ pc[c] = "construct" /\ CanRead(Lookup(registry, X)) = "True")
                      => frame[c].sourceName = X

\* C3: canReadList returns one (name, result of canRead) per eligible source,
\* all of them probed, in ascending order of (clash, fallback, priority,
\* name); the list is thereby a function of the registry and the input.
C3_CanReadListOrder ==
    \A c \in Callers :
        (Returned(c) /\ frame[c].op = "canReadList")
        => LET list == result[c].list
               path == frame[c].path
               mime == frame[c].mime
           IN  /\ SeqToSet(Names(list)) = EligibleKeys(registry, path, mime)
               /\ Len(list) = Cardinality(EligibleKeys(registry, path, mime))
               /\ \A k \in 1..Len(list) :
                      list[k][2] = CanRead(Lookup(registry, list[k][1]))
               /\ \A k \in 1..Len(list) : \A l \in (k + 1)..Len(list) :
                      TupleBefore(TupleOf(registry, list[k][1], path, mime),
                                  TupleOf(registry, list[l][1], path, mime))

\* canReadList returned three entries, the first True, the second False, the
\* third True: nothing was cut short after the first success
C3_Witness ==
    \E c \in Callers :
        /\ Returned(c) /\ frame[c].op = "canReadList"
        /\ Len(result[c].list) >= 3
        /\ result[c].list[1][2] = "True"
        /\ result[c].list[2][2] = "False"
        /\ result[c].list[3][2] = "True"

NoScheme(path) == ~Contains(path, SchemeSep)

\* C4 as stated: open on a local path that does not exist and has no scheme
\* fails with NotFound; on an existing file for which no source is found it
\* fails with NoAvailableSource; on a path with :// that resolves to no
\* source it fails with NoAvailableSource.  (A call that an exception of
\* canRead ended is C1's case and is set aside here.)
C4_MissingPathIsNotFound ==
    \A c \in Callers :
        (pc[c] = "done" /\ Opens(c))
        => /\ (~PathExists(frame[c].path) /\ NoScheme(frame[c].path)
                   /\ ~(Raised(c) /\ result[c].err = "ProbeError"))
                  => (Raised(c) /\ result[c].err = "TileSourceFileNotFoundError")
           /\ (ResolvedNone(c) /\ PathExists(frame[c].path))
                  => (Raised(c) /\ result[c].err = "TileSourceError")
           /\ (ResolvedNone(c) /\ ~NoScheme(frame[c].path))
                  => (Raised(c) /\ result[c].err = "TileSourceError")

\* C4 amended: when no source is found, open fails with NotFound if the path
\* does not exist and has no scheme, with NoAvailableSource if the file
\* exists, and with NoAvailableSource if the path contains ://.
C4_OpenErrorMapping ==
    \A c \in Callers :
        (ResolvedNone(c) /\ Opens(c))
        => /\ Raised(c)
           /\ (~PathExists(frame[c].path) /\ NoScheme(frame[c].path))
                  => result[c].err = "TileSourceFileNotFoundError"
           /\ PathExists(frame[c].path) => result[c].err = "TileSourceError"
           /\ ~NoScheme(frame[c].path) => result[c].err = "TileSourceError"

\* open of the missing file no.png probed at least one source, found none and
\* failed with NotFound
C4_Witness ==
    \E c \in Callers :
        /\ ResolvedNone(c) /\ frame[c].op = "open"
        /\ frame[c].path = P_no_png
        /\ Len(frame[c].probed) >= 1
        /\ result[c].err = "TileSourceFileNotFoundError"

\* C5: getSourceNameFromDict returns the first name of the sorted eligible
\* candidates whose canRead returns true: all before it were probed and
\* failed, none after it is probed; it returns no name only when every
\* candidate was probed and failed; canRead is true iff a name was found.
C5_FirstProbeWins ==
    \A c \in Callers :
        /\ Ranked(c) =>
              /\ {frame[c].sorted[i][4] : i \in 1..Len(frame[c].sorted)}
                   = EligibleKeys(registry, frame[c].path, frame[c].mime)
              /\ \A k \in 1..Len(frame[c].sorted) : \A l \in (k + 1)..Len(frame[c].sorted) :
                     TupleBefore(frame[c].sorted[k], frame[c].sorted[l])
        /\ ResolvedName(c) =>
              \E k \in 1..Len(frame[c].sorted) :
                  /\ frame[c].sorted[k][4] = frame[c].sourceName
                  /\ CanRead(Lookup(registry, frame[c].sourceName)) = "True"
                  /\ frame[c].probed =
                         [i \in 1..k |-> <<frame[c].sorted[i][4],
                                           IF i < k THEN "False" ELSE "True">>]
                  /\ \A i \in 1..(k - 1) :
                         CanRead(Lookup(registry, frame[c].sorted[i][4])) = "False"
        /\ ResolvedNone(c) =>
              /\ frame[c].sourceName = <<>>
              /\ frame[c].probed =
                     [i \in 1..Len(frame[c].sorted) |-> <<frame[c].sorted[i][4], "False">>]
        /\ (Returned(c) /\ frame[c].op = "canRead") =>
              (result[c].flag <=> frame[c].sourceName # <<>>)

\* canRead found the second of three candidates: the first failed, the third
\* was not probed
C5_Witness ==
    \E c \in Callers :
        /\ Returned(c) /\ frame[c].op = "canRead" /\ result[c].flag
        /\ Len(frame[c].probed) = 2
        /\ Len(frame[c].sorted) = 3

\* nothing but a wildcard at MANUAL, and no mimeType or name pattern below it
ManualOnly(cls) ==
    /\ cls.hasWild /\ cls.wild >= MANUAL
    /\ cls.exts = {}
    /\ \A m \in cls.mimeTypes : m[2] >= MANUAL
    /\ \A m \in cls.nameMatches : m[2] >= MANUAL

\* C6: a source that has only the wildcard at MANUAL is in no ranked list and
\* is never resolved or opened unless the input is large_image://<its name>;
\* every ranking tuple has a priority below MANUAL.
C6_ManualOnlyNeverRanked ==
    \A c \in Callers :
        /\ \A k \in 1..Len(frame[c].sourceList) : frame[c].sourceList[k][3] < MANUAL
        /\ \A k \in 1..Len(frame[c].sorted) : frame[c].sorted[k][3] < MANUAL
        /\ \A i \in 1..Len(registry) :
               (ManualOnly(registry[i].cls)
                   /\ frame[c].path # LargeImageScheme \o registry[i].key)
               => /\ \A k \in 1..Len(frame[c].sourceList) :
                         frame[c].sourceList[k][4] # registry[i].key
                  /\ \A k \in 1..Len(frame[c].sorted) :
                         frame[c].sorted[k][4] # registry[i].key
                  /\ frame[c].sourceName # registry[i].key
                  /\ result[c].source # registry[i].cls.id

\* a.tif with mimeType image/tiff was ranked while a source with only MANUAL
\* entries, one of them for that mimeType, is registered
C6_Witness ==
    \E c \in Callers :
        /\ Ranked(c)
        /\ frame[c].path = P_a_tif /\ frame[c].mime = "image/tiff"
        /\ \E i \in 1..Len(registry) :
               ManualOnly(registry[i].cls) /\ MimeMatches(registry[i].cls, frame[c].mime) # {}
        /\ Len(frame[c].sorted) >= 2
\* loadTileSources runs because a public operation found the registry empty
LazyLoading(c) == pc[c] = "load" /\ frame[c].op # "loadTileSources"

\* C8: the public operations invoke discovery only when the registry is
\* empty, and once an operation has finished no later operation invokes it
\* again (unless the application calls loadTileSources itself).
C8_DiscoveryOnlyOnce ==
    \A c \in Callers :
        /\ (LazyLoading(c) /\ frame[c].epIdx = 1) => Len(registry) = 0
        /\ ~(opDone /\ LazyLoading(c))

\* C9: when a name was resolved, open constructs exactly that source, and a
\* failure of the constructor reaches the caller as it is: no further
\* candidate is probed and the failure is not turned into NotFound or
\* NoAvailableSource.
C9_ConstructFailurePropagates ==
    \A c \in Callers :
        (pc[c] = "done" /\ Opens(c) /\ ResolvedName(c))
        => /\ result[c].source = Lookup(registry, frame[c].sourceName).id
           /\ frame[c].probed[Len(frame[c].probed)] = <<frame[c].sourceName, "True">>
           /\ Returned(c) \/ (Raised(c) /\ result[c].err = "ConstructionError")

\* open failed in the constructor while candidates were left unprobed
C9_Witness ==
    \E c \in Callers :
        /\ Raised(c) /\ frame[c].op = "open"
        /\ result[c].err = "ConstructionError"
        /\ Len(frame[c].sorted) > Len(frame[c].probed)

\* C10: in the sorted list a candidate whose declared geospatial property
\* differs from what isGeospatial says of the input comes after every
\* candidate without such a clash that has an equal or worse priority.
C10_ClashAfterNonClash ==
    \A c \in Callers :
        Ranked(c) =>
            \A i \in 1..Len(frame[c].sorted) : \A j \in 1..Len(frame[c].sorted) :
                LET a == frame[c].sorted[i]
                    b == frame[c].sorted[j]
                IN  /\ a[1] = (Lookup(registry, a[4]).geoProp
                                   # IsGeospatial(registry, frame[c].path))
                    /\ (a[1] /\ ~b[1] /\ b[3] >= a[3]) => j < i

\* a clashing candidate has a better priority than a non-clashing one of the
\* same fallback flag
C10_Witness ==
    \E c \in Callers :
        /\ Ranked(c)
        /\ \E i \in 1..Len(frame[c].sorted) : \E j \in 1..Len(frame[c].sorted) :
               /\ frame[c].sorted[i][1] /\ ~frame[c].sorted[j][1]
               /\ frame[c].sorted[j][3] > frame[c].sorted[i][3]
               /\ frame[c].sorted[j][2] = frame[c].sorted[i][2]

(***************************************************************************)
(* Callers racing on first use                                             *)
(***************************************************************************)
\* two distributions advertise png, one entry point fails to load
RaceInstall ==
    << EP(S_tif, TRUE, TiffClass),
       EP(<<"b", "a", "d">>, FALSE, UnnamedClass),
       EP(S_png, TRUE, PngClass),
       EP(S_png, TRUE, Png2Class) >>

RaceOracles ==
    {o \in [ClassIds -> ProbeOutcomes] :
         \A id \in ClassIds \ {"tiff"} : o[id] = IF id \in InstalledIds(RaceInstall) THEN "True" ELSE "False"}

RacePaths == {P_a_tif}

InitRace == InitWith({RaceInstall}, RaceOracles)

NextRace ==
    \E c \in Callers :
        \/ CallCanRead(c, RacePaths, {NoMime})
        \/ CallLoad(c)
        \/ EnsureLoads(c)
        \/ EnsureSkips(c)
        \/ LoadEntry(c)
        \/ LoadReturn(c)
        \/ ClassifyForRank(c)
        \/ RankStart(c)
        \/ RankEntry(c)
        \/ RankReturn(c)
        \/ RankRaise(c)
        \/ ProbeRaises(c)
        \/ ProbeFalse(c)
        \/ ProbeTrue(c)
        \/ Exhausted(c)
        \/ Return(c)

SpecRace == InitRace /\ [][NextRace]_vars

UniqueKeys(reg) == \A i \in 1..Len(reg) : \A j \in 1..Len(reg) : reg[i].key = reg[j].key => i = j

\* the entry is a class an entry point of that name loads, whole and valid
WholeEntry(item) ==
    \E j \in 1..Len(epoints) :
        /\ epoints[j].name = item.key
        /\ epoints[j].loads
        /\ epoints[j].cls = item.cls
        /\ ValidSource(item.cls)

Loading(c) == pc[c] = "load"

\* C7: however the discoveries of racing callers interleave, the registry
\* has one entry per name, every entry a reader can see is whole, and when
\* the discoveries have returned the registry is what one discovery alone
\* gives.
C7_DiscoveryConverges ==
    /\ UniqueKeys(registry)
    /\ \A i \in 1..Len(registry) : WholeEntry(registry[i])
    /\ (discovered /\ \A c \in Callers : ~Loading(c))
           => registry = LoadFrom(<<>>, epoints, 1)

\* two callers have both run loadTileSources to its end
C7_Witness ==
    \E c \in Callers : \E d \in Callers :
        /\ c # d
        /\ frame[c].epIdx > Len(epoints) /\ ~Loading(c)
        /\ frame[d].epIdx > Len(epoints) /\ ~Loading(d)
        /\ Len(registry) = 2
(***************************************************************************)
(* C11 - C17                                                               *)
(***************************************************************************)
\* what the inputs' base names and extension tokens are, written out
ExpectedBase(path) ==
    CASE path = P_a_tif -> P_a_tif
      [] path = P_d_b_c_TIF -> <<"b", ".", "c", ".", "T", "I", "F">>
      [] path = P_no_png -> P_no_png
      [] path = P_d_bin -> P_d_bin
      [] path = P_s_a_tif -> P_a_tif
      [] path = P_li_png -> S_png
      [] path = P_li_dum -> S_dum
      [] path = P_li_zz -> <<"z", "z">>
      [] OTHER -> path

ExpectedTokens(path) ==
    CASE path = P_a_tif -> {S_tif}
      [] path = P_d_b_c_TIF -> {<<"c">>, S_tif}
      [] path = P_no_png -> {S_png}
      [] path = P_d_bin -> {<<"b", "i", "n">>}
      [] path = P_s_a_tif -> {S_tif}
      [] OTHER -> {}

\* the priorities the claim takes the minimum of
ExpectedMatches(cls, path, mime) ==
    {m[2] : m \in {e \in cls.mimeTypes : mime # NoMime /\ e[1] = mime}}
        \cup {m[2] : m \in {e \in cls.nameMatches : StartsWith(ExpectedBase(path), e[1])}}
        \cup {m[2] : m \in {e \in cls.exts : e[1] \in ExpectedTokens(path)}}

\* C11: unless the input selects the source by name, the priority of its
\* tuple is the minimum of the wildcard priority, the priority of the hinted
\* mimeType, of the matching name patterns and of the lower-cased extension
\* tokens of the base name (its first segment dropped); fallback is true
\* exactly when none of these matched.
C11_PriorityIsMinimum ==
    \A c \in Callers : \A k \in 1..Len(frame[c].sourceList) :
        LET t == frame[c].sourceList[k]
            cls == Lookup(registry, t[4])
            hits == ExpectedMatches(cls, frame[c].path, frame[c].mime)
            all == hits \cup {IF cls.hasWild THEN cls.wild ELSE MANUAL}
        IN  frame[c].path # LargeImageScheme \o t[4]
            => /\ t[3] \in all
               /\ \A q \in all : t[3] <= q
               /\ t[2] <=> (hits = {})

\* d/b.c.TIF was ranked: tif matched through the token TIF, lower-cased
C11_Witness ==
    \E c \in Callers : \E k \in 1..Len(frame[c].sourceList) :
        /\ frame[c].path = P_d_b_c_TIF
        /\ frame[c].mime = NoMime
        /\ frame[c].sourceList[k] = <<FALSE, FALSE, 1, S_tif>>
\* isGeospatial has run for the call
Classified(c) ==
    /\ pc[c] \in {"rank", "probe", "construct", "done"}
    /\ frame[c].op # "loadTileSources"

\* the registered names whose class has an isGeospatial attribute
WithDetector(reg) == {reg[i].key : i \in {j \in 1..Len(reg) : reg[j].cls.detector # "none"}}

\* the registered names whose detector gives True or False
DefiniteKeys(reg) == {reg[i].key : i \in {j \in 1..Len(reg) : reg[j].cls.detector = "path"}}

\* C12: isGeospatial queries the registered sources that have a detector in
\* ascending order of name, up to and including the first that answers True
\* or False, whose answer it returns; sources that raise or answer anything
\* else are passed over; without a definite answer the result is False; it
\* never raises.
C12_FirstDefiniteAnswer ==
    \A c \in Callers :
        /\ Classified(c) =>
              LET q == frame[c].queried
                  definite == DefiniteKeys(registry)
              IN  /\ \A k \in 1..Len(q) : \A l \in (k + 1)..Len(q) : StrLess(q[k], q[l])
                  /\ SeqToSet(q) =
                         {n \in WithDetector(registry) :
                              \A m \in definite : ~StrLess(m, n)}
                  /\ (SeqToSet(q) \cap definite = {}) => ~frame[c].geo
                  /\ \A n \in SeqToSet(q) \cap definite :
                         /\ n = q[Len(q)]
                         /\ frame[c].geo <=> (frame[c].path \in GeoPaths)
        /\ (pc[c] = "done" /\ frame[c].op = "isGeospatial")
              => (Returned(c) /\ result[c].flag = frame[c].geo)

\* isGeospatial returned True, the answer of the second source it queried;
\* the first one raised
C12_Witness ==
    \E c \in Callers :
        /\ Returned(c) /\ frame[c].op = "isGeospatial"
        /\ result[c].flag
        /\ frame[c].queried = <<S_dum, S_geo>>
        /\ Lookup(registry, S_dum).detector = "raise"
        /\ HasKey(registry, S_png) /\ Lookup(registry, S_png).detector = "unsure"
\* the entry points whose load fails or whose class line 59 rejects
FailingEntryPoints ==
    {j \in 1..Len(epoints) :
         \/ ~epoints[j].loads
         \/ epoints[j].cls.name = <<>>
         \/ ~epoints[j].cls.hasWild}

\* the entry points loadTileSources has already been through, for caller c
Passed(c) ==
    IF pc[c] = "load" THEN 1..(frame[c].epIdx - 1)
    ELSE IF discovered THEN 1..Len(epoints)
    ELSE {}

\* C13: every entry of the registry is a source that loaded, has a non-empty
\* name and a wildcard extension; an entry point that fails adds nothing,
\* the ones after it are still registered, and loadTileSources returns
\* without raising.
C13_OnlyValidSourcesRegistered ==
    /\ \A i \in 1..Len(registry) :
           /\ registry[i].cls.name # <<>>
           /\ registry[i].cls.hasWild
           /\ \E j \in 1..Len(epoints) :
                  /\ epoints[j].loads
                  /\ epoints[j].name = registry[i].key
                  /\ epoints[j].cls = registry[i].cls
    /\ \A j \in FailingEntryPoints :
           ~\E i \in 1..Len(registry) :
               registry[i].key = epoints[j].name /\ registry[i].cls = epoints[j].cls
    /\ \A c \in Callers : \A j \in Passed(c) \ FailingEntryPoints :
           HasKey(registry, epoints[j].name)
    /\ \A c \in Callers :
           (pc[c] = "done" /\ frame[c].op = "loadTileSources") => ~Raised(c)
    /\ \A c \in Callers : LazyLoading(c) => result[c] = NoResult

\* loadTileSources has returned: the failing entry points in the middle of
\* the list are not registered, the ones after them are
C13_Witness ==
    \E c \in Callers :
        /\ pc[c] = "done" /\ ~Raised(c) /\ frame[c].op = "loadTileSources"
        /\ epoints = FullInstall
        /\ Keys(registry) = <<S_tif, S_png, S_geo, S_dum>>
        /\ \E j \in FailingEntryPoints : \E k \in 1..Len(epoints) :
               j < k /\ k \notin FailingEntryPoints
\* C14: in every state of the registry no two entries hold classes with the
\* same declared name, and the key of each entry is the declared name of the
\* class it holds.
C14_KeyIsDeclaredName ==
    /\ \A i \in 1..Len(registry) : \A j \in 1..Len(registry) :
           registry[i].cls.name = registry[j].cls.name => i = j
    /\ \A i \in 1..Len(registry) : registry[i].key = registry[i].cls.name
\* the step is one of the loop of a loadTileSources the application called
ExplicitLoadStep ==
    \E c \in Callers :
        /\ frame[c].op = "loadTileSources"
        /\ pc[c] = "load"
        /\ frame'[c].epIdx # frame[c].epIdx

\* C15: once the registry is populated, canRead, canReadList, open, new,
\* getSourceNameFromDict and isGeospatial leave it as it is: only a
\* loadTileSources the application calls changes an entry; no step removes
\* a name, and every name has one entry.
C15_ResolutionLeavesRegistry ==
    [][/\ (discovered /\ Len(registry) # 0 /\ registry' # registry) => ExplicitLoadStep
       /\ \A i \in 1..Len(registry) : HasKey(registry', registry[i].key)
       /\ UniqueKeys(registry')]_vars
(***************************************************************************)
(* One caller that always runs on: the calls of getSourceNameFromDict      *)
(***************************************************************************)
FairPaths == {P_a_tif, P_li_zz}

InitFair == InitWith({FullInstall}, [ClassIds -> ProbeOutcomes])

NextFair ==
    \/ CallCanRead(Main, FairPaths, MimeHints)
    \/ CallOpen(Main, FairPaths, MimeHints)
    \/ EnsureLoads(Main)
    \/ EnsureSkips(Main)
    \/ LoadEntry(Main)
    \/ LoadReturn(Main)
    \/ ClassifyForRank(Main)
    \/ RankStart(Main)
    \/ RankEntry(Main)
    \/ RankReturn(Main)
    \/ ProbeRaises(Main)
    \/ ProbeFalse(Main)
    \/ ProbeTrue(Main)
    \/ Exhausted(Main)
    \/ Construct(Main)
    \/ Return(Main)

\* the interpreter goes on running the thread: it takes a step again and
\* again.  A step is possible in every state (a finished call is followed
\* by the next), so this is weak fairness of NextFair.
SpecFair == InitFair /\ [][NextFair]_vars /\ []<><<NextFair>>_vars

\* a call that runs getSourceNameFromDict
Resolving(c) == frame[c].op \in {"canRead", "open", "new"}

\* no canRead of a registrable class raises
ProbesReturn == \A id \in ClassIds : oracle[id] # "raise"

Unranked(c) == pc[c] \in {"ensure", "load", "geo_ensure", "classify", "rank"}

Ended(c) == pc[c] \in {"construct", "done"}

\* nothing of a ranking or a probing loop is in the frame
NoRankingState(c) ==
    /\ frame[c].sourceList = <<>>
    /\ frame[c].sorted = <<>>
    /\ frame[c].probed = <<>>
    /\ frame[c].sourceName = <<>>

\* the order of the phases of one call
C16_PhaseOrder ==
    \A c \in Callers :
        Resolving(c) =>
            /\ Unranked(c) => (Unranked(c)' \/ pc'[c] = "probe")
            /\ (pc[c] = "rank" /\ pc'[c] = "probe") =>
                   /\ frame'[c].probed = <<>>
                   /\ frame'[c].probeIdx = 1
                   /\ Len(frame'[c].sorted) = Len(frame[c].sourceList)
            /\ pc[c] = "probe" => (pc'[c] = "probe" \/ Ended(c)')
            /\ pc'[c] = "probe" => pc[c] \in {"rank", "probe"}
            /\ (Ended(c)' /\ ~Ended(c)) => pc[c] = "probe"

\* what holds in every state of a call
C16_CallState ==
    \A c \in Callers :
        /\ \A k \in 1..Len(frame[c].probed) : \A l \in 1..Len(frame[c].probed) :
               frame[c].probed[k][1] = frame[c].probed[l][1] => k = l
        /\ \A k \in 1..Len(frame[c].probed) :
               frame[c].probed[k][1] \in EligibleKeys(registry, frame[c].path, frame[c].mime)
        /\ (Resolving(c) /\ Ended(c) /\ ProbesReturn) => (ResolvedName(c) \/ ResolvedNone(c))
        /\ pc[c] \in {"idle", "ensure", "load", "geo_ensure", "classify"} => NoRankingState(c)

\* C16: a call of getSourceNameFromDict is unranked, then ranked, then
\* probing, in that order, and when no canRead raises it ends with a name
\* (Resolved) or with None (Exhausted); no source is probed twice in one
\* call; a call starts with nothing left of the ranking or the probing of
\* the call before.
C16_CallTerminates ==
    /\ [][C16_PhaseOrder]_vars
    /\ []C16_CallState
    /\ \A c \in Callers :
           (pc[c] = "ensure" /\ Resolving(c) /\ ProbesReturn)
               ~> (ResolvedName(c) \/ ResolvedNone(c))

\* a call ended with a name after a probe that returned False, and a
\* second call has started
C16_Witness ==
    \E c \in Callers :
        /\ ProbesReturn /\ opDone
        /\ Resolving(c)
        /\ ResolvedName(c)
        /\ Len(frame[c].probed) >= 2
\* the eligible sources whose canRead answers True for the call's input
TrueKeys(c) ==
    {k \in EligibleKeys(registry, frame[c].path, frame[c].mime) :
         oracle[Lookup(registry, k).id] = "True"}

\* the one of them whose ranking tuple is before all the others'
FirstTrueKey(c) ==
    CHOOSE k \in TrueKeys(c) :
        \A j \in TrueKeys(c) \ {k} :
            TupleBefore(TupleOf(registry, k, frame[c].path, frame[c].mime),
                        TupleOf(registry, j, frame[c].path, frame[c].mime))

\* the places of the list canReadList returned that say True
TruePlaces(c) == {i \in 1..Len(result[c].list) : result[c].list[i][2] = "True"}

NoBackendErrors == {"TileSourceFileNotFoundError", "TileSourceError"}

\* C17: when no canRead raises, the three operations agree on one input
\* over one registry: canReadList has a True entry exactly when canRead
\* returns True, open constructs the source of the first True entry of
\* canReadList, and open fails with TileSourceFileNotFoundError or
\* TileSourceError exactly when canRead returns False.
C17_OperationsAgree ==
    \A c \in Callers :
        ProbesReturn =>
            /\ (Returned(c) /\ frame[c].op = "canReadList") =>
                   /\ TruePlaces(c) # {} <=> TrueKeys(c) # {}
                   /\ TruePlaces(c) # {} =>
                          result[c].list[MinOf(TruePlaces(c))][1] = FirstTrueKey(c)
            /\ (pc[c] = "done" /\ frame[c].op = "canRead") =>
                   /\ Returned(c)
                   /\ result[c].flag <=> TrueKeys(c) # {}
            /\ (Ended(c) /\ Opens(c)) =>
                   IF TrueKeys(c) = {}
                   THEN Raised(c) /\ result[c].err \in NoBackendErrors
                   ELSE /\ frame[c].sourceName = FirstTrueKey(c)
                        /\ pc[c] = "done" =>
                               /\ result[c].source = Lookup(registry, FirstTrueKey(c)).id
                               /\ result[c].err \notin NoBackendErrors

\* open has constructed the second of three candidates: the first one's
\* canRead is False, the third one's True like the second's
C17_Witness ==
    \E c \in Callers :
        /\ ProbesReturn
        /\ Returned(c) /\ frame[c].op = "open"
        /\ Len(frame[c].probed) = 2
        /\ Cardinality(TrueKeys(c)) >= 2
        /\ result[c].source = Lookup(registry, FirstTrueKey(c)).id
====
